---------------------------- MODULE Spec2Model ----------------------------
(***************************************************************************)
(* A model of lib/ansible/executor/stats.py: AggregateStats and its        *)
(* subclass DictionaryStats (per-host outcome counters, the custom metric  *)
(* store, the playbook name map and the per-playbook failure index).       *)
(*                                                                         *)
(* Python values are modelled as follows.                                  *)
(*   str    a sequence of one-character strings, so that replace, strip,   *)
(*          "in" and %-formatting are computed and not assumed;            *)
(*   dict   a function whose DOMAIN is the set of keys present;            *)
(*   None   the record None;                                               *)
(*   object a function from attribute names to attribute values;           *)
(*   a custom metric value is a record [t |-> type name, v |-> payload].   *)
(* Host names, attribute names and metric names are never taken apart by   *)
(* the code and stay TLA+ strings.                                         *)
(***************************************************************************)
EXTENDS Integers, Sequences, FiniteSets, TLC

VARIABLES
    self,      \* the aggregator object: attribute name -> value
    last,      \* the call that was made last, with its arguments
    ret,       \* what that call returned
    exc,       \* the exception that call raised, "none" when it returned
    nincr,     \* history: (what, host) -> number of increment calls made
    nfull,     \* history: as nincr, the calls given both a play and a task
    nops,      \* history: number of mutating calls made
    args,      \* DictionaryStats.__init__: options.args, the playbook files
    built,     \* DictionaryStats.__init__: "no", "ok" or the exception raised
    wHost,     \* concurrent run: the host each worker reports for
    pc,        \* concurrent run: each worker's position in increment
    frame,     \* concurrent run: each worker's arguments and local variables
    heap,      \* concurrent run: the dict objects of processed_playbooks
    seq,       \* concurrent run: the same calls applied one after another
    ndone      \* concurrent run: (what, host) -> number of completed calls

vars == <<self, last, ret, exc, nincr, nfull, nops, args, built,
          wHost, pc, frame, heap, seq, ndone>>

-----------------------------------------------------------------------------
(* Bounds of the model.                                                    *)

MaxOps == 3

MaxCustomOps == 3

MaxArgs == 2

MaxWorkerCalls == 2

MaxMetaOps == 2

-----------------------------------------------------------------------------
(* Python built-ins.                                                       *)

None == [t |-> "NoneType"]

EmptyDict == <<>>

\* d.get(k, default)
Get(d, k, default) == IF k \in DOMAIN d THEN d[k] ELSE default

\* d[k] = v
SetItem(d, k, v) == [x \in DOMAIN d \cup {k} |-> IF x = k THEN v ELSE d[x]]

\* hasattr(o, a)
HasAttr(o, a) == a \in DOMAIN o

\* the truth value of a str
StrTruthy(s) == Len(s) > 0

\* sub in s
StrContains(sub, s) ==
    \E i \in 1..(Len(s) - Len(sub) + 1) : SubSeq(s, i, i + Len(sub) - 1) = sub

\* s.replace(old, new), old not empty: every occurrence, left to right
RECURSIVE StrReplace(_, _, _)
StrReplace(s, old, new) ==
    IF Len(s) < Len(old) THEN s
    ELSE IF SubSeq(s, 1, Len(old)) = old
         THEN new \o StrReplace(SubSeq(s, Len(old) + 1, Len(s)), old, new)
         ELSE <<Head(s)>> \o StrReplace(Tail(s), old, new)

Whitespace == {" ", "\n", "\t"}

RECURSIVE LStrip(_)
LStrip(s) == IF s # <<>> /\ Head(s) \in Whitespace THEN LStrip(Tail(s)) ELSE s

RECURSIVE RStrip(_)
RStrip(s) ==
    IF s # <<>> /\ s[Len(s)] \in Whitespace
    THEN RStrip(SubSeq(s, 1, Len(s) - 1)) ELSE s

\* s.strip()
StrStrip(s) == RStrip(LStrip(s))

-----------------------------------------------------------------------------
(* String literals of the source, as character sequences.                  *)

S_name == <<"n", "a", "m", "e", ":">>

S_dash == <<"-", " ">>

S_NA == <<"N", "/", "A">>

S_Path == <<"P", "a", "t", "h", ":", " ">>

S_Playbook == <<"P", "l", "a", "y", "b", "o", "o", "k", ":", " ">>

S_Role == <<"R", "o", "l", "e", ":", " ">>

S_Task == <<"T", "a", "s", "k", ":", " ">>

S_NoPlay == <<"N", "o", " ", "p", "l", "a", "y">>

S_UnnamedPlay == <<"U", "n", "n", "a", "m", "e", "d", " ", "P", "l", "a", "y">>

S_UnnamedTask == <<"U", "n", "n", "a", "m", "e", "d", " ", "T", "a", "s", "k">>

S_UnknownRole == <<"U", "n", "k", "n", "o", "w", "n", " ", "R", "o", "l", "e">>

S_UnnamedRole == <<"U", "n", "n", "a", "m", "e", "d", " ", "R", "o", "l", "e">>

\* prefix % x, for a format "<prefix>%s" and a str x
Fmt(prefix, x) == prefix \o x

-----------------------------------------------------------------------------
(* What a method call does: the object afterwards, the value returned and  *)
(* the exception raised ("none" when the call returned).                   *)

Return(s, r) == [self |-> s, ret |-> r, exc |-> "none"]

Raise(s, e) == [self |-> s, ret |-> None, exc |-> e]

\* the six counters of AggregateStats.__init__, by attribute name; the
\* outcome kinds "failed" and "unreachable" are kept under "failures" and
\* "dark"
Kinds == {"processed", "failures", "ok", "dark", "changed", "skipped"}

\* the attributes of the object that are dicts
DictAttrs == Kinds \cup {"custom", "play_to_path_map", "processed_playbooks"}

-----------------------------------------------------------------------------
(* class AggregateStats                                                    *)

\* a value of the custom store is an int, held as [t |-> "int", v |-> n],
\* and not a dict of metrics (no metric of the model is named "t")
IsCount(x) == "t" \in DOMAIN x

\* increment storing 1 where the source stores prev + 1
AggregateStats_increment_lost(s, what, host) ==
    LET s1 == [s EXCEPT !["processed"] = SetItem(@, host, 1)]
    IN  Return([s1 EXCEPT ![what] = SetItem(@, host, 1)], None)

\* increment with self.processed = {host: 1} where the source has
\* self.processed[host] = 1
AggregateStats_increment_reset(s, what, host) ==
    LET s1 == [s EXCEPT !["processed"] = SetItem(EmptyDict, host, 1)]
    IN  IF what \notin DictAttrs
        THEN Raise(s1, "AttributeError")
        ELSE LET prev == Get(s1[what], host, 0)
             IN  Return([s1 EXCEPT ![what] = SetItem(@, host, prev + 1)], None)

\* getattr(self, what) is looked up after line 45 has run.  Under "custom" the
\* value read is an int (IsCount) that an earlier increment stored, and is
\* counted on, or the host's dict of metrics, and dict + 1 raises
AggregateStats_increment(s, what, host) ==
    LET s1 == [s EXCEPT !["processed"] = SetItem(@, host, 1)]
    IN  IF what \notin DictAttrs
        THEN Raise(s1, "AttributeError")
        ELSE IF what = "custom"
        THEN LET prev == Get(s1["custom"], host, [t |-> "int", v |-> 0])
             IN  IF ~IsCount(prev) THEN Raise(s1, "TypeError")
                 ELSE Return([s1 EXCEPT !["custom"] =
                                 SetItem(@, host, [t |-> "int", v |-> prev.v + 1])],
                             None)
        ELSE IF what \notin Kinds /\ host \in DOMAIN s1[what]
        THEN Raise(s1, "TypeError")
        ELSE LET prev == Get(s1[what], host, 0)
             IN  Return([s1 EXCEPT ![what] = SetItem(@, host, prev + 1)], None)

summarize(s, host) ==
    Return(s, [ok          |-> Get(s["ok"], host, 0),
               failures    |-> Get(s["failures"], host, 0),
               unreachable |-> Get(s["dark"], host, 0),
               changed     |-> Get(s["changed"], host, 0),
               skipped     |-> Get(s["skipped"], host, 0)])

\* the host argument of the custom-stat calls is None or a str
Str(x) == [t |-> "str", v |-> x]

HostKey(host) == IF host = None THEN "_run" ELSE host.v

\* set_custom_stats replacing the host's metrics by the one set
set_custom_stats_replace(s, which, what, host) ==
    Return([s EXCEPT !["custom"] =
                SetItem(@, HostKey(host), SetItem(EmptyDict, which, what))], None)

\* self.custom[host][which] = what raises on an int
set_custom_stats(s, which, what, host) ==
    LET h == HostKey(host)
    IN  IF h \notin DOMAIN s["custom"]
        THEN Return([s EXCEPT !["custom"] =
                        SetItem(@, h, SetItem(EmptyDict, which, what))], None)
        ELSE IF IsCount(s["custom"][h])
        THEN Raise(s, "TypeError")
        ELSE Return([s EXCEPT !["custom"] =
                        SetItem(@, h, SetItem(@[h], which, what))], None)

\* type(x) of a custom metric value
TypeOf(x) == x.t

\* isinstance(x, T): bool is a subclass of int
IsInstance(x, T) == x.t = T \/ (x.t = "bool" /\ T = "int")

\* isinstance(x, MutableMapping)
IsMutableMapping(x) == x.t = "dict"

\* the number a bool, int or float stands for
Num(x) == IF x.t = "bool" THEN (IF x.v THEN 1 ELSE 0) ELSE x.v

\* a + b for isinstance(b, type(a)), neither a mapping: [exc, val]
Add(a, b) ==
    CASE a.t = "int"   -> [exc |-> "none", val |-> [t |-> "int", v |-> a.v + Num(b)]]
      [] a.t = "bool"  -> [exc |-> "none", val |-> [t |-> "int", v |-> Num(a) + Num(b)]]
      [] a.t = "float" -> [exc |-> "none", val |-> [t |-> "float", v |-> a.v + b.v]]
      [] a.t = "str"   -> [exc |-> "none", val |-> [t |-> "str", v |-> a.v \o b.v]]
      [] OTHER         -> [exc |-> "TypeError", val |-> a]

\* ansible.utils.vars.merge_hash(a, b): b's keys win, mappings under the same
\* key are merged recursively
RECURSIVE merge_hash(_, _)
merge_hash(a, b) ==
    [t |-> "dict",
     v |-> [k \in DOMAIN a.v \cup DOMAIN b.v |->
              IF k \notin DOMAIN b.v THEN a.v[k]
              ELSE IF k \in DOMAIN a.v /\ IsMutableMapping(a.v[k])
                      /\ IsMutableMapping(b.v[k])
                   THEN merge_hash(a.v[k], b.v[k])
                   ELSE b.v[k]]]

\* update_custom_stats with "=" where the source has "+="
update_custom_stats_assign(s, which, what, host) ==
    LET h == HostKey(host)
    IN  IF h \notin DOMAIN s["custom"] \/ which \notin DOMAIN s["custom"][h]
        THEN set_custom_stats(s, which, what, host)
        ELSE IF ~IsInstance(what, TypeOf(s["custom"][h][which]))
        THEN Return(s, None)
        ELSE IF IsMutableMapping(what)
        THEN Return([s EXCEPT !["custom"][h][which] = merge_hash(@, what)], None)
        ELSE Return([s EXCEPT !["custom"][h][which] = what], None)

\* update_custom_stats storing the new mapping where the source merges
update_custom_stats_nomerge(s, which, what, host) ==
    LET h == HostKey(host)
    IN  IF h \notin DOMAIN s["custom"] \/ which \notin DOMAIN s["custom"][h]
        THEN set_custom_stats(s, which, what, host)
        ELSE IF ~IsInstance(what, TypeOf(s["custom"][h][which]))
        THEN Return(s, None)
        ELSE IF IsMutableMapping(what)
        THEN Return([s EXCEPT !["custom"][h][which] = what], None)
        ELSE LET sum == Add(s["custom"][h][which], what)
             IN  IF sum.exc # "none" THEN Raise(s, sum.exc)
                 ELSE Return([s EXCEPT !["custom"][h][which] = sum.val], None)

\* which not in self.custom[host] raises on an int
update_custom_stats(s, which, what, host) ==
    LET h == HostKey(host)
    IN  IF h \in DOMAIN s["custom"] /\ IsCount(s["custom"][h])
        THEN Raise(s, "TypeError")
        ELSE IF h \notin DOMAIN s["custom"] \/ which \notin DOMAIN s["custom"][h]
        THEN set_custom_stats(s, which, what, host)
        ELSE LET stored == s["custom"][h][which]
             IN  IF ~IsInstance(what, TypeOf(stored))
                 THEN Return(s, None)
                 ELSE IF IsMutableMapping(what)
                 THEN Return([s EXCEPT !["custom"][h][which] =
                                 merge_hash(stored, what)], None)
                 ELSE LET sum == Add(stored, what)
                      IN  IF sum.exc # "none"
                          THEN Raise(s, sum.exc)
                          ELSE Return([s EXCEPT !["custom"][h][which] = sum.val],
                                      None)

-----------------------------------------------------------------------------
(* The playbook files DictionaryStats.__init__ may be given: path ->        *)
(* readlines().  A path outside the DOMAIN is a file that cannot be opened. *)

P_deploy == <<"d", ".", "y">>

P_rollback == <<"r", ".", "y">>

P_copy == <<"c", ".", "y">>

P_tasks == <<"t", ".", "y">>

P_unnamed == <<"u", ".", "y">>

P_blank == <<"b", ".", "y">>

P_missing == <<"x", ".", "y">>

L_nameD == <<"-", " ", "n", "a", "m", "e", ":", " ", "D", "\n">>

L_nameR == <<"-", " ", "n", "a", "m", "e", ":", " ", "R", "\n">>

L_nameT == <<"-", " ", "n", "a", "m", "e", ":", " ", "T", "\n">>

L_plainD == <<"n", "a", "m", "e", ":", " ", "D", "\n">>

L_taskD == <<" ", " ", "-", " ", "n", "a", "m", "e", ":", " ", "D", "\n">>

L_hosts == <<" ", " ", "h", "o", "s", "t", "s", ":", " ", "a", "\n">>

L_blank == <<"-", " ", "n", "a", "m", "e", ":", " ", "\n">>

Files ==
    (P_deploy   :> <<L_nameD, L_hosts>>) @@
    (P_rollback :> <<L_hosts, L_nameR>>) @@
    (P_copy     :> <<L_plainD>>) @@
    (P_tasks    :> <<L_nameT, L_hosts, L_taskD>>) @@
    (P_unnamed  :> <<L_hosts>>) @@
    (P_blank    :> <<L_nameR, L_blank>>)

Paths == DOMAIN Files \cup {P_missing}

-----------------------------------------------------------------------------
(* class DictionaryStats(AggregateStats)                                   *)

\* the for loop of _get_playbook_name over the lines left, key_name so far
RECURSIVE ScanLines(_, _)
ScanLines(lines, key_name) ==
    IF lines = <<>> THEN key_name
    ELSE LET line == Head(lines)
         IN  IF StrContains(S_name, StrStrip(line))
             THEN ScanLines(Tail(lines),
                     StrStrip(StrReplace(StrReplace(line, S_name, <<>>),
                                         S_dash, <<>>)))
             ELSE ScanLines(Tail(lines), key_name)

\* [exc, val]
_get_playbook_name(playbook) ==
    IF playbook \notin DOMAIN Files
    THEN [exc |-> "IOError", val |-> <<>>]
    ELSE LET key_name == ScanLines(Files[playbook], <<>>)
         IN  IF ~StrTruthy(key_name)
             THEN [exc |-> "Exception", val |-> <<>>]
             ELSE [exc |-> "none", val |-> key_name]

\* the dict comprehension of _get_playbook_map, from left to right: [exc, val]
RECURSIVE PlaybookMapFrom(_, _)
PlaybookMapFrom(files, playbook_map) ==
    IF files = <<>> THEN [exc |-> "none", val |-> playbook_map]
    ELSE LET n == _get_playbook_name(Head(files))
         IN  IF n.exc # "none" THEN [exc |-> n.exc, val |-> EmptyDict]
             ELSE PlaybookMapFrom(Tail(files),
                                  SetItem(playbook_map, n.val, Head(files)))

\* _get_playbook_map without the comparison of the two lengths
_get_playbook_map_unchecked(options_args) ==
    PlaybookMapFrom(options_args, EmptyDict)

\* [exc, val]; raising the ValueError reads self.args, which no
\* DictionaryStats has
_get_playbook_map(options_args) ==
    LET m == PlaybookMapFrom(options_args, EmptyDict)
    IN  IF m.exc # "none" THEN m
        ELSE IF Cardinality(DOMAIN m.val) # Len(options_args)
        THEN [exc |-> "AttributeError", val |-> EmptyDict]
        ELSE m

\* DictionaryStats(options): [exc, self]
DictionaryStats_init(options_args) ==
    LET m == _get_playbook_map(options_args)
    IN  IF m.exc # "none" THEN [exc |-> m.exc, self |-> None]
        ELSE [exc  |-> "none",
              self |-> [play_to_path_map    |-> m.val,
                        processed_playbooks |-> EmptyDict,
                        processed |-> EmptyDict,
                        failures  |-> EmptyDict,
                        ok        |-> EmptyDict,
                        dark      |-> EmptyDict,
                        changed   |-> EmptyDict,
                        skipped   |-> EmptyDict,
                        custom    |-> EmptyDict]]

\* summarize_playbooks reading with setdefault where the source reads with get
summarize_playbooks_setdefault(s, host) ==
    Return([s EXCEPT !["processed_playbooks"] =
               SetItem(@, host, Get(@, host, EmptyDict))],
           Get(s["processed_playbooks"], host, EmptyDict))

summarize_playbooks(s, host) ==
    Return(s, Get(s["processed_playbooks"], host, EmptyDict))

\* the truth value of a play, task or role argument: None is false, an
\* object is true
Truthy(o) == o # None

\* not getattr(o, a, None), for an attribute holding a str
NoStrAttr(o, a) == ~HasAttr(o, a) \/ ~StrTruthy(o[a])

_get_playbook_key(play) ==
    IF ~Truthy(play) THEN S_NoPlay
    ELSE IF NoStrAttr(play, "name") THEN S_UnnamedPlay
    ELSE play["name"]

\* [exc, task_name, role_name]
_get_task_and_role(task) ==
    IF ~Truthy(task)
    THEN [exc |-> "none", task_name |-> <<>>, role_name |-> <<>>]
    ELSE LET task_name == IF NoStrAttr(task, "name") THEN S_UnnamedTask
                          ELSE task["name"]
         IN  IF ~HasAttr(task, "_role") \/ ~Truthy(task["_role"])
             THEN [exc |-> "none", task_name |-> task_name,
                   role_name |-> S_UnknownRole]
             ELSE IF ~HasAttr(task["_role"], "_role_name")
             THEN [exc |-> "AttributeError", task_name |-> task_name,
                   role_name |-> <<>>]
             ELSE IF ~StrTruthy(task["_role"]["_role_name"])
             THEN [exc |-> "none", task_name |-> task_name,
                   role_name |-> S_UnnamedRole]
             ELSE [exc |-> "none", task_name |-> task_name,
                   role_name |-> task["_role"]["_role_name"]]

\* the kinds _increment_tuple_dict leaves out of processed_playbooks
SkippedKinds == {"skipped", "ok", "changed"}

\* the key of processed_playbooks[host] for a play with a name attribute
TupleKey(s, play, task) ==
    LET tr == _get_task_and_role(task)
        playbook_path == Get(s["play_to_path_map"], play["name"], S_NA)
    IN  <<Fmt(S_Path, playbook_path),
          Fmt(S_Playbook, _get_playbook_key(play)),
          Fmt(S_Role, tr.role_name),
          Fmt(S_Task, tr.task_name)>>

\* _increment_tuple_dict counting in a new status_dict where the source
\* counts in the one the key holds
_increment_tuple_dict_fresh(s, what, host, play, task) ==
    IF what \in SkippedKinds THEN Return(s, None)
    ELSE IF _get_task_and_role(task).exc # "none"
    THEN Raise(s, _get_task_and_role(task).exc)
    ELSE IF ~Truthy(play) \/ ~HasAttr(play, "name")
    THEN Raise(s, "AttributeError")
    ELSE LET host_dict == Get(s["processed_playbooks"], host, EmptyDict)
             tuple_key == TupleKey(s, play, task)
             status_dict == Get(host_dict, tuple_key, EmptyDict)
             status_count == Get(status_dict, what, 0)
         IN  Return([s EXCEPT !["processed_playbooks"] =
                        SetItem(@, host, SetItem(host_dict, tuple_key,
                            SetItem(EmptyDict, what, status_count + 1)))],
                    None)

_increment_tuple_dict(s, what, host, play, task) ==
    IF what \in SkippedKinds THEN Return(s, None)
    ELSE IF _get_task_and_role(task).exc # "none"
    THEN Raise(s, _get_task_and_role(task).exc)
    ELSE IF ~Truthy(play) \/ ~HasAttr(play, "name")
    THEN Raise(s, "AttributeError")
    ELSE LET host_dict == Get(s["processed_playbooks"], host, EmptyDict)
             tuple_key == TupleKey(s, play, task)
             status_dict == Get(host_dict, tuple_key, EmptyDict)
             status_count == Get(status_dict, what, 0)
         IN  Return([s EXCEPT !["processed_playbooks"] =
                        SetItem(@, host, SetItem(host_dict, tuple_key,
                            SetItem(status_dict, what, status_count + 1)))],
                    None)

\* increment without the call of AggregateStats.increment
DictionaryStats_increment_nosuper(s, what, host, play, task) ==
    IF ~Truthy(play) /\ ~Truthy(task) THEN Return(s, None)
    ELSE _increment_tuple_dict(s, what, host, play, task)

DictionaryStats_increment(s, what, host, play, task) ==
    LET r == AggregateStats_increment(s, what, host)
    IN  IF r.exc # "none" THEN r
        ELSE IF ~Truthy(play) /\ ~Truthy(task) THEN r
        ELSE _increment_tuple_dict(r.self, what, host, play, task)

-----------------------------------------------------------------------------
(* The arguments the calls are made with.                                  *)

Hosts == {"h1", "h2"}

N_D == <<"D">>

N_Z == <<"Z">>

N_install == <<"i">>

N_web == <<"w">>

Play(name) == [t |-> "Play", name |-> name]

Role(role_name) == [t |-> "Role", _role_name |-> role_name]

Task(name, role) == [t |-> "Task", name |-> name, _role |-> role]

\* a play whose name is in the playbook map of Init
PlayDeploy == Play(N_D)

\* a named task of a named role
TaskInstall == Task(N_install, Role(N_web))

\* the play arguments: none, a play of the playbook map, a play of no mapped
\* playbook, a play with an empty name
Plays == {None, PlayDeploy, Play(N_Z), Play(<<>>)}

\* the task arguments: none, named task of a named role, unnamed task, task
\* of no role, task of an unnamed role
Tasks ==
    { None, TaskInstall, Task(<<>>, Role(N_web)), Task(N_install, None),
      Task(N_install, Role(<<>>)) }

IntV(n) == [t |-> "int", v |-> n]

BoolV(b) == [t |-> "bool", v |-> b]

FloatV(n) == [t |-> "float", v |-> n]

StrV(s) == [t |-> "str", v |-> s]

DictV(f) == [t |-> "dict", v |-> f]

\* the values of custom metrics
Values ==
    { IntV(5), IntV(3), BoolV(TRUE), FloatV(3), StrV(<<"s">>),
      DictV("a" :> IntV(1)), DictV("b" :> IntV(2)), DictV("a" :> IntV(5)),
      DictV("a" :> DictV("a" :> IntV(1))), DictV("a" :> DictV("b" :> IntV(2))) }

Metrics == {"x", "m"}

HostArgs == {None, Str("h1")}

-----------------------------------------------------------------------------
(* The aggregator of one run, driven by one caller.                        *)

\* the playbooks of the run
RunArgs == <<P_deploy, P_rollback>>

\* a worker that has not called yet
NoFrame == [what |-> "ok", host |-> "h1", play |-> None, task |-> None,
            prev |-> 0, host_dict |-> 0, status_dict |-> 0, status_count |-> 0,
            calls |-> 0]

Workers == {"w1", "w2"}

\* no call has been made
NoCalls ==
    /\ last = [op |-> "init"]
    /\ ret = None
    /\ exc = "none"
    /\ nincr = [p \in DictAttrs \X Hosts |-> 0]
    /\ nfull = [p \in DictAttrs \X Hosts |-> 0]
    /\ nops = 0
    /\ pc = [w \in Workers |-> "idle"]
    /\ frame = [w \in Workers |-> NoFrame]
    /\ heap = <<>>
    /\ ndone = [p \in Kinds \X Hosts |-> 0]

\* DictionaryStats(options) has returned, options.args being RunArgs
Constructed ==
    /\ args = RunArgs
    /\ built = "ok"
    /\ self = DictionaryStats_init(RunArgs).self
    /\ seq = self

Init ==
    /\ Constructed
    /\ NoCalls
    /\ wHost = [w \in Workers |-> "h1"]

ConcVars == <<wHost, pc, frame, heap, seq, ndone>>

CtorVars == <<args, built>>

\* the outcome r of a call becomes the state
Apply(r, call) ==
    /\ self' = r.self
    /\ ret' = r.ret
    /\ exc' = r.exc
    /\ last' = call

Increment(what, host, play, task, bound) ==
    /\ nops < bound
    /\ Apply(DictionaryStats_increment(self, what, host, play, task),
             [op |-> "increment", what |-> what, host |-> host,
              play |-> play, task |-> task])
    /\ nincr' = [nincr EXCEPT ![<<what, host>>] = @ + 1]
    /\ nfull' = IF Truthy(play) /\ Truthy(task)
                THEN [nfull EXCEPT ![<<what, host>>] = @ + 1] ELSE nfull
    /\ nops' = nops + 1
    /\ UNCHANGED <<CtorVars, ConcVars>>

Summarize(host) ==
    /\ Apply(summarize(self, host), [op |-> "summarize", host |-> host])
    /\ UNCHANGED <<nincr, nfull, nops, CtorVars, ConcVars>>

SummarizePlaybooks(host) ==
    /\ Apply(summarize_playbooks(self, host),
             [op |-> "summarize_playbooks", host |-> host])
    /\ UNCHANGED <<nincr, nfull, nops, CtorVars, ConcVars>>

SetCustomStats(which, what, host, bound) ==
    /\ nops < bound
    /\ Apply(set_custom_stats(self, which, what, host),
             [op |-> "set_custom_stats", which |-> which, what |-> what,
              host |-> host])
    /\ nops' = nops + 1
    /\ UNCHANGED <<nincr, nfull, CtorVars, ConcVars>>

UpdateCustomStats(which, what, host, bound) ==
    /\ nops < bound
    /\ Apply(update_custom_stats(self, which, what, host),
             [op |-> "update_custom_stats", which |-> which, what |-> what,
              host |-> host])
    /\ nops' = nops + 1
    /\ UNCHANGED <<nincr, nfull, CtorVars, ConcVars>>

Next ==
    \/ \E what \in Kinds, host \in Hosts,
          play \in {None, PlayDeploy}, task \in {None, TaskInstall} :
            Increment(what, host, play, task, MaxOps)
    \/ \E host \in Hosts : Summarize(host)
    \/ \E host \in Hosts : SummarizePlaybooks(host)
    \/ \E what \in {IntV(5), StrV(<<"s">>)}, host \in HostArgs :
            SetCustomStats("x", what, host, MaxOps)
    \/ \E what \in {IntV(5), StrV(<<"s">>)}, host \in HostArgs :
            UpdateCustomStats("x", what, host, MaxOps)

Spec == Init /\ [][Next]_vars

-----------------------------------------------------------------------------
(* The custom metric store, with values of every type.                     *)

NextCustom ==
    \/ \E which \in Metrics, what \in Values, host \in HostArgs :
            SetCustomStats(which, what, host, MaxCustomOps)
    \/ \E which \in Metrics, what \in Values, host \in HostArgs :
            UpdateCustomStats(which, what, host, MaxCustomOps)
    \/ \E what \in {"ok", "failures"} :
            Increment(what, "h1", None, None, MaxCustomOps)

SpecCustom == Init /\ [][NextCustom]_vars

-----------------------------------------------------------------------------
(* increment with every combination of play and task metadata.             *)

NextMeta ==
    \E what \in Kinds, play \in Plays, task \in Tasks :
        Increment(what, "h1", play, task, MaxMetaOps)

SpecMeta == Init /\ [][NextMeta]_vars

-----------------------------------------------------------------------------
(* increment with kinds outside the six counters: the name of another      *)
(* attribute of the aggregator and a name that is no attribute.            *)

BadKinds == {"custom", "bogus"}

NextKinds ==
    \/ \E what \in Kinds \cup BadKinds,
          play \in {None, PlayDeploy}, task \in {None, TaskInstall} :
            Increment(what, "h1", play, task, MaxOps)
    \/ \E host \in HostArgs : SetCustomStats("x", IntV(5), host, MaxOps)
    \/ \E host \in HostArgs : UpdateCustomStats("x", IntV(3), host, MaxOps)

SpecKinds == Init /\ [][NextKinds]_vars

-----------------------------------------------------------------------------
(* Construction: DictionaryStats(options) for every list of playbook files *)
(* of up to MaxArgs paths.                                                 *)

RECURSIVE SeqsUpTo(_, _)
SeqsUpTo(S, n) ==
    IF n = 0 THEN {<<>>}
    ELSE LET shorter == SeqsUpTo(S, n - 1)
         IN  shorter \cup {Append(q, x) : q \in shorter, x \in S}

InitCtor ==
    /\ args \in SeqsUpTo(Paths, MaxArgs)
    /\ built = "no"
    /\ self = None
    /\ seq = None
    /\ NoCalls
    /\ wHost = [w \in Workers |-> "h1"]

Construct ==
    /\ built = "no"
    /\ LET r == DictionaryStats_init(args)
       IN  /\ built' = (IF r.exc = "none" THEN "ok" ELSE r.exc)
           /\ self' = r.self
    /\ UNCHANGED <<last, ret, exc, nincr, nfull, nops, args, ConcVars>>

\* the first call on the new aggregator
FirstIncrement(what, host, play, task) ==
    /\ built = "ok"
    /\ Apply(DictionaryStats_increment(self, what, host, play, task),
             [op |-> "increment", what |-> what, host |-> host,
              play |-> play, task |-> task])
    /\ nops = 0
    /\ nops' = 1
    /\ nincr' = [nincr EXCEPT ![<<what, host>>] = @ + 1]
    /\ nfull' = IF Truthy(play) /\ Truthy(task)
                THEN [nfull EXCEPT ![<<what, host>>] = @ + 1] ELSE nfull
    /\ UNCHANGED <<CtorVars, ConcVars>>

NextCtor ==
    \/ Construct
    \/ \E name \in {N_D, <<"R">>, N_Z} :
            FirstIncrement("failures", "h1", Play(name), TaskInstall)

SpecCtor == InitCtor /\ [][NextCtor]_vars

-----------------------------------------------------------------------------
(* Workers calling increment concurrently.  Each worker reports for one    *)
(* host; a step is one access to the shared object: a dict lookup or a     *)
(* dict store is atomic, the lines between two accesses are local.  The    *)
(* dicts under processed_playbooks are objects on the heap, held by        *)
(* reference, as host_dict and status_dict are in the source.              *)

InitConc ==
    /\ Constructed
    /\ NoCalls
    /\ wHost \in [Workers -> Hosts]

SeqVars == <<last, ret, exc, nincr, nfull, nops>>

\* worker w moves to position p with frame f
Goto(w, p, f) ==
    /\ pc' = [pc EXCEPT ![w] = p]
    /\ frame' = [frame EXCEPT ![w] = f]

\* worker w's call returns: the call joins the sequential order
Finish(w) ==
    /\ pc' = [pc EXCEPT ![w] = "idle"]
    /\ ndone' = [ndone EXCEPT ![<<frame[w].what, frame[w].host>>] = @ + 1]
    /\ seq' = DictionaryStats_increment(seq, frame[w].what, frame[w].host,
                                        frame[w].play, frame[w].task).self

\* line 45 on the shared object
StoreProcessed(s, f) == [s EXCEPT !["processed"] = SetItem(@, f.host, 1)]

\* line 47 with a store that keeps only the key stored
StoreCount_clobber(s, f) ==
    [s EXCEPT ![f.what] = SetItem(EmptyDict, f.host, f.prev + 1)]

\* line 47 on the shared object
StoreCount(s, f) == [s EXCEPT ![f.what] = SetItem(@, f.host, f.prev + 1)]

\* increment(what, wHost[w], play, task) is called
Call(w, what, play, task) ==
    /\ pc[w] = "idle"
    /\ frame[w].calls < MaxWorkerCalls
    /\ Goto(w, "l45", [NoFrame EXCEPT !.what = what, !.host = wHost[w],
                                      !.play = play, !.task = task,
                                      !.calls = frame[w].calls + 1])
    /\ UNCHANGED <<self, heap, seq, ndone, wHost, SeqVars, CtorVars>>

\* self.processed[host] = 1
L45(w) ==
    /\ pc[w] = "l45"
    /\ self' = StoreProcessed(self, frame[w])
    /\ Goto(w, "l46", frame[w])
    /\ UNCHANGED <<heap, seq, ndone, wHost, SeqVars, CtorVars>>

\* prev = (getattr(self, what)).get(host, 0)
L46(w) ==
    /\ pc[w] = "l46"
    /\ Goto(w, "l47", [frame[w] EXCEPT
                          !.prev = Get(self[frame[w].what], frame[w].host, 0)])
    /\ UNCHANGED <<self, heap, seq, ndone, wHost, SeqVars, CtorVars>>

\* getattr(self, what)[host] = prev + 1, and lines 139 to 148
L47(w) ==
    /\ pc[w] = "l47"
    /\ self' = StoreCount(self, frame[w])
    /\ IF \/ (~Truthy(frame[w].play) /\ ~Truthy(frame[w].task))
          \/ frame[w].what \in SkippedKinds
       THEN Finish(w) /\ UNCHANGED frame
       ELSE Goto(w, "l149", frame[w]) /\ UNCHANGED <<seq, ndone>>
    /\ UNCHANGED <<heap, wHost, SeqVars, CtorVars>>

\* host_dict = self.processed_playbooks.get(host, {})
L149(w) ==
    /\ pc[w] = "l149"
    /\ IF frame[w].host \in DOMAIN self["processed_playbooks"]
       THEN /\ Goto(w, "l156", [frame[w] EXCEPT !.host_dict =
                                   self["processed_playbooks"][frame[w].host]])
            /\ UNCHANGED heap
       ELSE /\ heap' = Append(heap, EmptyDict)
            /\ Goto(w, "l156", [frame[w] EXCEPT !.host_dict = Len(heap) + 1])
    /\ UNCHANGED <<self, seq, ndone, wHost, SeqVars, CtorVars>>

\* lines 150 to 156: status_dict = host_dict.get(tuple_key, {})
L156(w) ==
    /\ pc[w] = "l156"
    /\ LET tuple_key == TupleKey(self, frame[w].play, frame[w].task)
           host_dict == heap[frame[w].host_dict]
       IN  IF tuple_key \in DOMAIN host_dict
           THEN /\ Goto(w, "l158", [frame[w] EXCEPT
                                       !.status_dict = host_dict[tuple_key]])
                /\ UNCHANGED heap
           ELSE /\ heap' = Append(heap, EmptyDict)
                /\ Goto(w, "l158", [frame[w] EXCEPT
                                       !.status_dict = Len(heap) + 1])
    /\ UNCHANGED <<self, seq, ndone, wHost, SeqVars, CtorVars>>

\* status_count = status_dict.get(what, 0)
L158(w) ==
    /\ pc[w] = "l158"
    /\ Goto(w, "l159", [frame[w] EXCEPT !.status_count =
                           Get(heap[frame[w].status_dict], frame[w].what, 0)])
    /\ UNCHANGED <<self, heap, seq, ndone, wHost, SeqVars, CtorVars>>

\* status_dict[what] = status_count + 1
L159(w) ==
    /\ pc[w] = "l159"
    /\ heap' = [heap EXCEPT ![frame[w].status_dict] =
                   SetItem(@, frame[w].what, frame[w].status_count + 1)]
    /\ Goto(w, "l160", frame[w])
    /\ UNCHANGED <<self, seq, ndone, wHost, SeqVars, CtorVars>>

\* host_dict[tuple_key] = status_dict
L160(w) ==
    /\ pc[w] = "l160"
    /\ heap' = [heap EXCEPT ![frame[w].host_dict] =
                   SetItem(@, TupleKey(self, frame[w].play, frame[w].task),
                           frame[w].status_dict)]
    /\ Goto(w, "l161", frame[w])
    /\ UNCHANGED <<self, seq, ndone, wHost, SeqVars, CtorVars>>

\* self.processed_playbooks[host] = host_dict
L161(w) ==
    /\ pc[w] = "l161"
    /\ self' = [self EXCEPT !["processed_playbooks"] =
                   SetItem(@, frame[w].host, frame[w].host_dict)]
    /\ Finish(w)
    /\ UNCHANGED <<frame, heap, wHost, SeqVars, CtorVars>>

NextConc ==
    \/ \E w \in Workers, what \in {"ok", "failures"} :
            \/ Call(w, what, None, None)
            \/ Call(w, what, PlayDeploy, TaskInstall)
    \/ \E w \in Workers : L45(w)
    \/ \E w \in Workers : L46(w)
    \/ \E w \in Workers : L47(w)
    \/ \E w \in Workers : L149(w)
    \/ \E w \in Workers : L156(w)
    \/ \E w \in Workers : L158(w)
    \/ \E w \in Workers : L159(w)
    \/ \E w \in Workers : L160(w)
    \/ \E w \in Workers : L161(w)

SpecConc == InitConc /\ [][NextConc]_vars

\* the shared object with the references of processed_playbooks followed
View ==
    [self EXCEPT !["processed_playbooks"] =
        [h \in DOMAIN @ |-> [k \in DOMAIN heap[@[h]] |-> heap[heap[@[h]][k]]]]]

AllIdle == \A w \in Workers : pc[w] = "idle"

-----------------------------------------------------------------------------
(* Vocabulary of the properties.                                           *)

\* the step just taken was a call of op that changes the aggregator
Called(op) == last'.op = op /\ nops' = nops + 1

\* the (host, metric) pairs of a custom store
Entries(c) == {e \in (DOMAIN c) \X Metrics : e[2] \in DOMAIN c[e[1]]}

HasEntry(c, h, which) == h \in DOMAIN c /\ which \in DOMAIN c[h]

\* two custom metric values are the same value of the same type
SameValue(a, b) == a.t = b.t /\ a.v = b.v

\* every entry of the custom store but (h, which) is as it was
OthersUnchanged(h, which) ==
    /\ Entries(self'["custom"]) \ {<<h, which>>}
         = Entries(self["custom"]) \ {<<h, which>>}
    /\ \A e \in Entries(self["custom"]) \ {<<h, which>>} :
         SameValue(self'["custom"][e[1]][e[2]], self["custom"][e[1]][e[2]])

IsNumeric(x) == x.t \in {"int", "bool", "float"}

\* the kinds recorded anywhere in processed_playbooks
IndexedKinds(s) ==
    LET pp == s["processed_playbooks"]
    IN  UNION { UNION { DOMAIN pp[h][k] : k \in DOMAIN pp[h] } : h \in DOMAIN pp }

-----------------------------------------------------------------------------
(* C1: whenever summarize(h) has just returned, it did not fail and each   *)
(* of its five fields holds the number of increment calls made so far for  *)
(* that kind and host h (0 for a kind or a host never incremented).        *)
C1_SummarizeCounts ==
    last.op = "summarize" =>
        /\ exc = "none"
        /\ ret.ok = nincr[<<"ok", last.host>>]
        /\ ret.failures = nincr[<<"failures", last.host>>]
        /\ ret.unreachable = nincr[<<"dark", last.host>>]
        /\ ret.changed = nincr[<<"changed", last.host>>]
        /\ ret.skipped = nincr[<<"skipped", last.host>>]

\* summarize("h1") after two increments of failures and none of ok
C1_Witness ==
    /\ last.op = "summarize"
    /\ last.host = "h1"
    /\ nincr[<<"failures", "h1">>] = 2
    /\ ret.failures = 2
    /\ ret.ok = 0

(* C2: every host with a non-zero count of any of the six kinds has        *)
(* processed[h] = 1.                                                       *)
C2_ProcessedIsFlag ==
    \A h \in Hosts :
        (\E k \in Kinds : Get(self[k], h, 0) # 0) => Get(self["processed"], h, 0) = 1

(* C3: once every increment call has returned, the counter of each kind   *)
(* and host holds the number of increment calls completed for that pair.   *)
C3_NoLostUpdate ==
    AllIdle =>
        \A k \in {"ok", "failures"}, h \in Hosts :
            Get(self[k], h, 0) = ndone[<<k, h>>]

(* C4: once every call of workers that report for different hosts has      *)
(* returned, the counters and processed_playbooks are what the same calls  *)
(* produce when made one after another.                                    *)
C4_DifferentHostsSerial ==
    (AllIdle /\ wHost["w1"] # wHost["w2"]) => View = seq

\* both workers, for different hosts, have twice recorded a failure of the
\* same task: each host has its own entry, with a count of 2
C4_Witness ==
    /\ AllIdle
    /\ wHost["w1"] # wHost["w2"]
    /\ \A h \in Hosts : ndone[<<"failures", h>>] = 2
    /\ DOMAIN View["processed_playbooks"] = Hosts
    /\ \A h \in Hosts :
          /\ View["failures"][h] = 2
          /\ \E k \in DOMAIN View["processed_playbooks"][h] :
                View["processed_playbooks"][h][k] = [failures |-> 2]

\* the key of the custom store the last call's host argument stands for
LastKey == IF last'.host = None THEN "_run" ELSE last'.host.v

\* the value stored before, and after, the last call under its (host, metric)
Stored == self["custom"][LastKey][last'.which]

StoredAfter == self'["custom"][LastKey][last'.which]

\* an update_custom_stats call was just made on an entry that existed
UpdatedExisting ==
    /\ Called("update_custom_stats")
    /\ HasEntry(self["custom"], LastKey, last'.which)

(* C5: update_custom_stats on an existing entry whose stored value's type  *)
(* differs from the new value's type does not raise and changes nothing.   *)
C5_MismatchIsNoOp ==
    [][ (UpdatedExisting /\ TypeOf(Stored) # TypeOf(last'.what))
            => (exc' = "none" /\ self' = self) ]_vars

(* C6, as claimed: update_custom_stats on a missing entry stores the value *)
(* as set_custom_stats would, and on a stored number every numeric value   *)
(* is added to it.                                                         *)
C6_NumericUpdatesAdd ==
    [][ Called("update_custom_stats") =>
          IF ~HasEntry(self["custom"], LastKey, last'.which)
          THEN /\ HasEntry(self'["custom"], LastKey, last'.which)
               /\ SameValue(StoredAfter, last'.what)
               /\ OthersUnchanged(LastKey, last'.which)
          ELSE (IsNumeric(Stored) /\ IsNumeric(last'.what)) =>
                  /\ IsNumeric(StoredAfter)
                  /\ Num(StoredAfter) = Num(Stored) + Num(last'.what) ]_vars

\* the (new type, stored type) pairs of numbers that pass the type test
AddablePairs ==
    { <<"int", "int">>, <<"bool", "int">>, <<"bool", "bool">>,
      <<"float", "float">> }

(* C6, amended: update_custom_stats on a missing entry stores the value as *)
(* set_custom_stats would; on a stored number, a numeric value whose type  *)
(* is the stored value's type or its subtype (bool under int) is added to  *)
(* it, and a numeric value of any other type leaves it as it was.          *)
C6_SameTypeUpdatesAdd ==
    [][ Called("update_custom_stats") =>
          IF ~HasEntry(self["custom"], LastKey, last'.which)
          THEN /\ HasEntry(self'["custom"], LastKey, last'.which)
               /\ SameValue(StoredAfter, last'.what)
               /\ OthersUnchanged(LastKey, last'.which)
          ELSE (IsNumeric(Stored) /\ IsNumeric(last'.what)) =>
                  IF <<last'.what.t, Stored.t>> \in AddablePairs
                  THEN /\ StoredAfter.t
                            = (IF Stored.t = "float" THEN "float" ELSE "int")
                       /\ StoredAfter.v = Num(Stored) + Num(last'.what)
                  ELSE SameValue(StoredAfter, Stored) ]_vars

\* update_custom_stats("x", 3, "h1") has made the 5 stored before an 8
C6_Witness ==
    /\ last.op = "update_custom_stats"
    /\ last.which = "x"
    /\ last.host = Str("h1")
    /\ SameValue(last.what, IntV(3))
    /\ HasEntry(self["custom"], "h1", "x")
    /\ SameValue(self["custom"]["h1"]["x"], IntV(8))

\* an update_custom_stats call with a mapping was just made on a mapping
MergedMappings ==
    /\ UpdatedExisting
    /\ IsMutableMapping(Stored)
    /\ IsMutableMapping(last'.what)

(* C7, as claimed: the merged mapping has the keys of both, a key of the   *)
(* new mapping holds the new value and a key of the stored mapping only    *)
(* keeps its value.                                                        *)
C7_MergeTakesNew ==
    [][ MergedMappings =>
          /\ IsMutableMapping(StoredAfter)
          /\ DOMAIN StoredAfter.v = DOMAIN Stored.v \cup DOMAIN last'.what.v
          /\ \A k \in DOMAIN last'.what.v :
                SameValue(StoredAfter.v[k], last'.what.v[k])
          /\ \A k \in DOMAIN Stored.v \ DOMAIN last'.what.v :
                SameValue(StoredAfter.v[k], Stored.v[k]) ]_vars

\* new is old and add merged key by key, add's values winning
FlatMerge(new, old, add) ==
    /\ IsMutableMapping(new)
    /\ DOMAIN new.v = DOMAIN old.v \cup DOMAIN add.v
    /\ \A k \in DOMAIN add.v : SameValue(new.v[k], add.v[k])
    /\ \A k \in DOMAIN old.v \ DOMAIN add.v : SameValue(new.v[k], old.v[k])

(* C7, amended: the merged mapping has the keys of both and a key of the   *)
(* stored mapping only keeps its value; a key of the new mapping holds the *)
(* new value, unless the stored and the new value under that key are both  *)
(* mappings, and then it holds the two merged by the same rule.            *)
C7_MergeIsRecursive ==
    [][ MergedMappings =>
          /\ IsMutableMapping(StoredAfter)
          /\ DOMAIN StoredAfter.v = DOMAIN Stored.v \cup DOMAIN last'.what.v
          /\ \A k \in DOMAIN last'.what.v :
                IF /\ k \in DOMAIN Stored.v
                   /\ IsMutableMapping(Stored.v[k])
                   /\ IsMutableMapping(last'.what.v[k])
                THEN FlatMerge(StoredAfter.v[k], Stored.v[k], last'.what.v[k])
                ELSE SameValue(StoredAfter.v[k], last'.what.v[k])
          /\ \A k \in DOMAIN Stored.v \ DOMAIN last'.what.v :
                SameValue(StoredAfter.v[k], Stored.v[k]) ]_vars

\* {a:1}, then {b:2}, then {a:5} under ("h1", "m") has left {a:5, b:2}
C7_Witness ==
    /\ last.op = "update_custom_stats"
    /\ last.which = "m"
    /\ last.host = Str("h1")
    /\ SameValue(last.what, DictV("a" :> IntV(5)))
    /\ HasEntry(self["custom"], "h1", "m")
    /\ SameValue(self["custom"]["h1"]["m"],
                 DictV(("a" :> IntV(5)) @@ ("b" :> IntV(2))))

(* C8: after set_custom_stats(name, value, host) the entry under host, or  *)
(* under "_run" when host is None, and name is value, whatever was there   *)
(* before, and every other entry of the custom store is as it was.         *)
C8_SetOverwrites ==
    [][ Called("set_custom_stats") =>
          /\ exc' = "none"
          /\ HasEntry(self'["custom"], LastKey, last'.which)
          /\ SameValue(StoredAfter, last'.what)
          /\ OthersUnchanged(LastKey, last'.which) ]_vars

\* set_custom_stats("x", "s") with no host, the global store holding
\* another metric and host h1 holding x too
C8_Witness ==
    /\ last.op = "set_custom_stats"
    /\ last.which = "x"
    /\ last.host = None
    /\ HasEntry(self["custom"], "_run", "x")
    /\ SameValue(self["custom"]["_run"]["x"], StrV(<<"s">>))
    /\ HasEntry(self["custom"], "_run", "m")
    /\ HasEntry(self["custom"], "h1", "x")

(* C9: DictionaryStats(options) returns an aggregator exactly when every   *)
(* file of options.args has a name and no two of them have the same name;  *)
(* its play_to_path_map then maps each file's name to the file's path, and *)
(* otherwise an exception is raised and there is no aggregator.            *)
C9_ConstructionIffUniqueNames ==
    built # "no" =>
        LET files == 1..Len(args)
            named == \A i \in files : _get_playbook_name(args[i]).exc = "none"
            distinct == \A i, j \in files :
                            i # j => _get_playbook_name(args[i]).val
                                        # _get_playbook_name(args[j]).val
        IN  /\ (built = "ok") <=> (named /\ distinct)
            /\ built = "ok" =>
                  /\ DOMAIN self["play_to_path_map"]
                        = {_get_playbook_name(args[i]).val : i \in files}
                  /\ \A i \in files :
                        self["play_to_path_map"][_get_playbook_name(args[i]).val]
                            = args[i]
            /\ built # "ok" => self = None

\* two files named D and R: the aggregator maps each name to its file
C9_Witness ==
    /\ built = "ok"
    /\ args = <<P_deploy, P_rollback>>
    /\ self["play_to_path_map"] = (<<"D">> :> P_deploy) @@ (<<"R">> :> P_rollback)

(* C10: an increment of ok, skipped or changed leaves processed_playbooks  *)
(* as it was and raises the host's counter of that kind by one, and no     *)
(* kind but failures and dark is ever recorded in processed_playbooks.     *)
C10_OnlyFailuresIndexed ==
    [][ /\ (Called("increment") /\ last'.what \in SkippedKinds) =>
              /\ self'["processed_playbooks"] = self["processed_playbooks"]
              /\ Get(self'[last'.what], last'.host, 0)
                    = Get(self[last'.what], last'.host, 0) + 1
        /\ IndexedKinds(self') \subseteq {"failures", "dark"} ]_vars

(* C11: an increment call with one of the six kinds returns normally,      *)
(* whatever play and task it is given: no play, a play with or without a   *)
(* name, no task, a task with or without a name, with or without a role,   *)
(* the role with or without a name.                                        *)
C11_NeverRaises ==
    (last.op = "increment" /\ last.what \in Kinds) => exc = "none"

(* C12: an increment call with a kind that is none of the six raises, and  *)
(* leaves every store of the aggregator as it was.                         *)
C12_InvalidKindFailsFast ==
    [][ (Called("increment") /\ last'.what \notin Kinds)
            => (exc' # "none" /\ self' = self) ]_vars

(* C13: a call of summarize or summarize_playbooks, for a host seen or     *)
(* not, returns normally and leaves every attribute of the aggregator as   *)
(* it was, and when it repeats the call made just before, it returns what  *)
(* that call returned.                                                     *)
C13_ReadsArePure ==
    [][ (last'.op \in {"summarize", "summarize_playbooks"} /\ nops' = nops) =>
          /\ exc' = "none"
          /\ self' = self
          /\ (last.op = last'.op /\ last.host = last'.host) => ret' = ret ]_vars

\* summarize_playbooks("h2") has returned the empty mapping, h1 having
\* recorded failures and h2 having no entry anywhere
C13_Witness ==
    /\ last.op = "summarize_playbooks"
    /\ last.host = "h2"
    /\ ret = EmptyDict
    /\ "h1" \in DOMAIN self["processed_playbooks"]
    /\ \A a \in Kinds \cup {"processed_playbooks", "custom"} :
          "h2" \notin DOMAIN self[a]

\* the name given by the first of lines that holds the "name:" marker, with
\* the marker and the list dash taken out; <<>> when no line holds it
RECURSIVE FirstNameLine(_)
FirstNameLine(lines) ==
    IF lines = <<>> THEN <<>>
    ELSE IF StrContains(S_name, StrStrip(Head(lines)))
         THEN StrStrip(StrReplace(StrReplace(Head(lines), S_name, <<>>),
                                  S_dash, <<>>))
         ELSE FirstNameLine(Tail(lines))

(* C14: the aggregator constructed maps, for each file of options.args,    *)
(* the name given by the first line of the file that holds "name:" to the  *)
(* file's path.                                                            *)
C14_FirstNameLine ==
    built = "ok" =>
        \A i \in 1..Len(args) :
            /\ FirstNameLine(Files[args[i]]) \in DOMAIN self["play_to_path_map"]
            /\ self["play_to_path_map"][FirstNameLine(Files[args[i]])] = args[i]

\* the (host, key, kind) triples counted in processed_playbooks
IndexTriples(s) ==
    LET pp == s["processed_playbooks"]
    IN  UNION { UNION { { <<h, k, kind>> : kind \in DOMAIN pp[h][k] } :
                        k \in DOMAIN pp[h] } : h \in DOMAIN pp }

\* the count of a triple, 0 when it is not counted
IndexCount(s, tr) ==
    IF tr \in IndexTriples(s)
    THEN s["processed_playbooks"][tr[1]][tr[2]][tr[3]] ELSE 0

(* C15: across every call, every (host, key, kind) count of                *)
(* processed_playbooks stays and does not decrease; a call that changes    *)
(* processed_playbooks is an increment call and raises exactly one count   *)
(* by exactly 1; and an increment of failures or dark with a play and a    *)
(* task that returns normally is such a call.                              *)
C15_IndexIsAdditive ==
    [][ /\ \A tr \in IndexTriples(self) :
              /\ tr \in IndexTriples(self')
              /\ IndexCount(self', tr) >= IndexCount(self, tr)
        /\ self'["processed_playbooks"] # self["processed_playbooks"] =>
              /\ Called("increment")
              /\ \E tr \in IndexTriples(self') :
                    /\ IndexCount(self', tr) = IndexCount(self, tr) + 1
                    /\ \A o \in IndexTriples(self') \ {tr} :
                          IndexCount(self', o) = IndexCount(self, o)
        /\ ( /\ Called("increment")
             /\ exc' = "none"
             /\ last'.what \in {"failures", "dark"}
             /\ Truthy(last'.play)
             /\ Truthy(last'.task) ) =>
              self'["processed_playbooks"] # self["processed_playbooks"] ]_vars

\* an increment has raised a count to 2, another count standing beside it
C15_Witness ==
    /\ last.op = "increment"
    /\ exc = "none"
    /\ Cardinality(IndexTriples(self)) >= 2
    /\ \E tr \in IndexTriples(self) :
          /\ tr[1] = last.host
          /\ tr[3] = last.what
          /\ IndexCount(self, tr) = 2

\* the names that are not empty of the plays, roles and tasks given
PlayNames == {q.name : q \in {x \in Plays \ {None} : StrTruthy(x.name)}}

TaskNames == {q.name : q \in {x \in Tasks \ {None} : StrTruthy(x.name)}}

RoleNames ==
    {q._role._role_name :
        q \in {x \in Tasks \ {None} :
                  x._role # None /\ StrTruthy(x._role._role_name)}}

(* C16: every key of processed_playbooks is a 4-tuple of "Path: ",         *)
(* "Playbook: ", "Role: " and "Task: " labels: the path is one of the      *)
(* playbook map or N/A, the playbook a play's name, Unnamed Play or No     *)
(* play, the role a role's name, Unknown Role or Unnamed Role, the task a  *)
(* task's name or Unnamed Task; so no label is empty.                      *)
C16_KeysAreLabelled ==
    \A h \in DOMAIN self["processed_playbooks"] :
        \A k \in DOMAIN self["processed_playbooks"][h] :
            /\ Len(k) = 4
            /\ \E x \in {self["play_to_path_map"][n] :
                            n \in DOMAIN self["play_to_path_map"]} \cup {S_NA} :
                  k[1] = Fmt(S_Path, x)
            /\ \E x \in PlayNames \cup {S_UnnamedPlay, S_NoPlay} :
                  k[2] = Fmt(S_Playbook, x)
            /\ \E x \in RoleNames \cup {S_UnknownRole, S_UnnamedRole} :
                  k[3] = Fmt(S_Role, x)
            /\ \E x \in TaskNames \cup {S_UnnamedTask} :
                  k[4] = Fmt(S_Task, x)

\* the dict under attribute a holds for every key but k what it held before
\* the step
SameButKey(a, k) ==
    /\ DOMAIN self'[a] \ {k} = DOMAIN self[a] \ {k}
    /\ \A x \in DOMAIN self[a] \ {k} : self'[a][x] = self[a][x]

(* C17: an increment call with one of the six kinds leaves the counters of *)
(* every other kind but processed as they were, and leaves every other     *)
(* host's entry of processed, of the kind's counter and of                 *)
(* processed_playbooks, the custom store and the playbook map as they      *)
(* were; a set_custom_stats or update_custom_stats call leaves everything  *)
(* but the custom store as it was.                                         *)
C17_Frame ==
    [][ /\ (Called("increment") /\ last'.what \in Kinds) =>
              /\ \A k \in Kinds \ {"processed", last'.what} : self'[k] = self[k]
              /\ SameButKey("processed", last'.host)
              /\ SameButKey(last'.what, last'.host)
              /\ SameButKey("processed_playbooks", last'.host)
              /\ self'["custom"] = self["custom"]
              /\ self'["play_to_path_map"] = self["play_to_path_map"]
        /\ (Called("set_custom_stats") \/ Called("update_custom_stats")) =>
              \A a \in DictAttrs \ {"custom"} : self'[a] = self[a] ]_vars

\* a failure of h1 has been counted and recorded, h2 having counters and
\* recorded failures of its own and the custom store holding a metric
C17_Witness ==
    /\ last.op = "increment"
    /\ last.host = "h1"
    /\ last.what = "failures"
    /\ "h1" \in DOMAIN self["processed_playbooks"]
    /\ "h2" \in DOMAIN self["processed_playbooks"]
    /\ Get(self["failures"], "h2", 0) = 1
    /\ Get(self["processed"], "h2", 0) = 1
    /\ self["custom"] # EmptyDict

\* the counts of kind under the keys of a host's dict, added up
RECURSIVE SumCounts(_, _, _)
SumCounts(host_dict, keys, kind) ==
    IF keys = {} THEN 0
    ELSE LET k == CHOOSE x \in keys : TRUE
         IN  Get(host_dict[k], kind, 0) + SumCounts(host_dict, keys \ {k}, kind)

\* the failures of one kind recorded for host h under all keys
FineSum(h, kind) ==
    LET host_dict == Get(self["processed_playbooks"], h, EmptyDict)
    IN  SumCounts(host_dict, DOMAIN host_dict, kind)

(* C18: for each host and each of failures and dark, the counts recorded   *)
(* in processed_playbooks under all keys add up to at most the host's      *)
(* counter of that kind, and to exactly the counter when every increment   *)
(* of that kind for that host was given both a play and a task.            *)
C18_FineAtMostCoarse ==
    \A h \in Hosts, kind \in {"failures", "dark"} :
        /\ FineSum(h, kind) <= Get(self[kind], h, 0)
        /\ nfull[<<kind, h>>] = nincr[<<kind, h>>] =>
              FineSum(h, kind) = Get(self[kind], h, 0)

\* h1 has failed twice, with a play and a task both times, and was
\* unreachable once with a task and no play
C18_Witness ==
    /\ nincr[<<"failures", "h1">>] = 2
    /\ nfull[<<"failures", "h1">>] = 2
    /\ FineSum("h1", "failures") = 2
    /\ self["failures"]["h1"] = 2
    /\ nincr[<<"dark", "h1">>] = 1
    /\ nfull[<<"dark", "h1">>] = 0
    /\ FineSum("h1", "dark") = 0
    /\ self["dark"]["h1"] = 1

(* C19: an increment call that raises leaves every attribute of the        *)
(* aggregator as it was before the call.                                   *)
C19_FailedCallChangesNothing ==
    [][ (Called("increment") /\ exc' # "none") => self' = self ]_vars

=============================================================================
